---------------------------- MODULE Spec2Model ----------------------------
(***************************************************************************)
(* A model of evmone's FixedHash<N> (lib/evmone/FixedHash.h): a fixed-size *)
(* byte array with big-endian arithmetic conversion, relational and        *)
(* bitwise operators, cross-size construction, bloom-filter parts and a    *)
(* bit scan.                                                               *)
(*                                                                         *)
(* A FixedHash<N> is modelled by its m_data: a function from the source's  *)
(* byte indices 0..N-1 to bytes 0..255.  The template parameters (N, M, P) *)
(* are chosen when a behaviour starts, the way an instantiation fixes them.*)
(***************************************************************************)
EXTENDS Integers, FiniteSets, Sequences

VARIABLES
    op,      \* the member function that ran last ("init" before any ran)
    self,    \* *this: the m_data of the object the operation is called on
    arg,     \* the operand (_c, _h, _b or _t of the source)
    t,       \* the ConstructFromHashType argument _t
    ret,     \* what the operation returned
    P,       \* the template parameter P of the bloom operations
    items,   \* the values inserted into the filter so far by shiftBloom
    steps,   \* how many times a mutating operation (++, shiftBloom) ran on self
    ptr      \* bloomPart's read pointer p when it returned, as an offset from data()

vars == <<op, self, arg, t, ret, P, items, steps, ptr>>

-----------------------------------------------------------------------------
(* Bounds of the model. *)

\* Largest N of the relational operators' behaviours.
MaxOrdLen == 2

\* Largest N of the increment's behaviours, and the longest run of increments.
MaxIncLen == 2
IncCap == 66000

\* Bloom filters: the largest P, the largest log2 of the filter's byte
\* length M, and the number of insertions into one filter.
MaxPicks == 3
MaxBloomLog == 6
MaxFilterPicks == 2
MaxFilterLog == 2
MaxInserts == 2

\* Largest of the small sizes M and N of the constructions from another
\* fixed value, and the largest length of a byte vector and of the value
\* made from it.
MaxFixedLen == 3
MaxBytesLen == 3

\* Largest N of the conversions through a number, and of the bit scan.
MaxNumLen == 5
MaxScanLen == 3

-----------------------------------------------------------------------------
(* Sizes the source names. *)

\* h256 = FixedHash<32> and h160 = FixedHash<20>.
H256Size == 32
H160Size == 20

-----------------------------------------------------------------------------
(* Bytes and the C++ operators on them. *)

Byte == 0..255

\* Byte values the inputs are drawn from: both ends of the range, the sign
\* bit and its neighbours.
SampleBytes == {0, 1, 127, 128, 255}

\* Bit j (0 = least significant) of the unsigned value b.
BitOf(b, j) == (b \div (2^j)) % 2

\* a & b and a | b on unsigned values, bit by bit.
RECURSIVE BitAnd(_, _)
BitAnd(a, b) ==
    IF a = 0 \/ b = 0 THEN 0
    ELSE (a % 2) * (b % 2) + 2 * BitAnd(a \div 2, b \div 2)

RECURSIVE BitOr(_, _)
BitOr(a, b) ==
    IF a = 0 THEN b
    ELSE IF b = 0 THEN a
    ELSE (IF (a % 2) + (b % 2) > 0 THEN 1 ELSE 0) + 2 * BitOr(a \div 2, b \div 2)

\* N of a FixedHash<N> value, and the length of a byte vector.
Size(h) == Cardinality(DOMAIN h)

\* FixedHash(): m_data.fill(0).
Zero(N) == [i \in 0..N-1 |-> 0]

\* Every N-byte value over the byte set S.
HashesOver(N, S) == [0..N-1 -> S]

-----------------------------------------------------------------------------
(* Big-endian conversion. *)

\* fromBigEndian<T>: ret = (T)((ret << 8) | byte) over the bytes in order,
\* T an unsigned type of `width` bits.
RECURSIVE fromBigEndianLoop(_, _, _, _)
fromBigEndianLoop(bytes, i, acc, width) ==
    IF i = Size(bytes) THEN acc
    ELSE fromBigEndianLoop(bytes, i + 1, ((acc * 256) % (2^width)) + bytes[i], width)

fromBigEndian(bytes, width) == fromBigEndianLoop(bytes, 0, 0, width)

\* operator Arith(): Arith is the unsigned type of exactly N * 8 bits.
ToArith(h) == fromBigEndian(h, 8 * Size(h))

-----------------------------------------------------------------------------
(* Relational operators. *)

\* operator== of std::array: element-wise.
ArrayEq(a, b) == \A i \in DOMAIN a : a[i] = b[i]

\* A slip: the scan starts at the last byte, the least significant one.
RECURSIVE LessFromEnd(_, _, _)
LessFromEnd(a, c, i) ==
    IF i = 0 THEN FALSE
    ELSE IF a[i - 1] < c[i - 1] THEN TRUE
    ELSE IF a[i - 1] > c[i - 1] THEN FALSE
    ELSE LessFromEnd(a, c, i - 1)

OpLessFromEnd(a, c) == LessFromEnd(a, c, Size(a))

\* operator<: the first differing byte decides; equal values are not less.
RECURSIVE LessFrom(_, _, _)
LessFrom(a, c, i) ==
    IF i = Size(a) THEN FALSE
    ELSE IF a[i] < c[i] THEN TRUE
    ELSE IF a[i] > c[i] THEN FALSE
    ELSE LessFrom(a, c, i + 1)

OpLess(a, c) == LessFrom(a, c, 0)

\* A uint64_t read at hash[k]: the 8 bytes from offset 8k as one 64-bit
\* value, written in radix 2^16 (least significant limb first; the byte
\* order is the target's, little-endian here).
Word64(h, k) ==
    [l \in 0..3 |-> h[8*k + 2*l] + 256 * h[8*k + 2*l + 1]]

\* A slip: the last of the four words is left out of the comparison.
FastEqThreeWords(a, c) ==
    /\ Word64(a, 0) = Word64(c, 0)
    /\ Word64(a, 1) = Word64(c, 1)
    /\ Word64(a, 2) = Word64(c, 2)

\* FixedHash<32>::operator==: four 8-byte words are compared.
FastEq(a, c) ==
    /\ Word64(a, 0) = Word64(c, 0)
    /\ Word64(a, 1) = Word64(c, 1)
    /\ Word64(a, 2) = Word64(c, 2)
    /\ Word64(a, 3) = Word64(c, 3)

\* operator==: the specialisation for N = 32, the array comparison otherwise.
OpEq(a, c) == IF Size(a) = H256Size THEN FastEq(a, c) ELSE ArrayEq(a, c)

\* operator!=: the array comparison for every N.
OpNotEq(a, c) == ~ArrayEq(a, c)

OpGreaterEq(a, c) == ~OpLess(a, c)
OpLessEq(a, c) == OpEq(a, c) \/ OpLess(a, c)
OpGreater(a, c) == ~OpLessEq(a, c)

-----------------------------------------------------------------------------
(* Behaviours of the relational operators: two N-byte values are drawn and *)
(* one operator is applied to them.                                        *)

InitOrd ==
    /\ op = "init"
    /\ \E N \in 1..MaxOrdLen :
         /\ self \in HashesOver(N, SampleBytes)
         /\ arg \in HashesOver(N, SampleBytes)
    /\ t = "none"
    /\ ret = "none"
    /\ P = 0
    /\ items = {}
    /\ steps = 0
    /\ ptr = 0

Apply(name, result) ==
    /\ op = "init"
    /\ op' = name
    /\ ret' = result
    /\ UNCHANGED <<self, arg, t, P, items, steps, ptr>>

Less == Apply("<", OpLess(self, arg))
LessEq == Apply("<=", OpLessEq(self, arg))
Greater == Apply(">", OpGreater(self, arg))
GreaterEq == Apply(">=", OpGreaterEq(self, arg))
Equal == Apply("==", OpEq(self, arg))

NextOrd == Less \/ LessEq \/ Greater \/ GreaterEq \/ Equal

SpecOrd == InitOrd /\ [][NextOrd]_vars

\* C3: each relational operator agrees with the comparison of the two values
\* decoded as big-endian unsigned integers, and exactly one of a < b, a == b,
\* a > b holds.
OrderingAgreesWithDecode ==
    /\ op = "<"  => (ret <=> ToArith(self) < ToArith(arg))
    /\ op = "<=" => (ret <=> ToArith(self) <= ToArith(arg))
    /\ op = ">"  => (ret <=> ToArith(self) > ToArith(arg))
    /\ op = ">=" => (ret <=> ToArith(self) >= ToArith(arg))
    /\ op = "==" => (ret <=> ToArith(self) = ToArith(arg))
    /\ Cardinality({r \in {"<", "==", ">"} :
            \/ r = "<" /\ OpLess(self, arg)
            \/ r = "==" /\ OpEq(self, arg)
            \/ r = ">" /\ OpGreater(self, arg)}) = 1

\* A pair that differs only in its last byte, with a smaller first operand
\* whose last byte is the larger one's neighbour, was compared by <.
OrderingWitness ==
    /\ op = "<"
    /\ Size(self) = MaxOrdLen
    /\ self[0] = arg[0]
    /\ self[Size(self) - 1] = 127
    /\ arg[Size(arg) - 1] = 128
    /\ ret = TRUE

-----------------------------------------------------------------------------
(* Big-endian increment. *)

\* A slip: the last byte is incremented and a wrap-around carries nowhere.
OpIncNoCarry(h) ==
    [h EXCEPT ![Size(h) - 1] = (h[Size(h) - 1] + 1) % 256]

\* operator++: for (i = size; i > 0 && !++m_data[--i]; ) {} -- from the last
\* byte toward byte 0, increment (modulo 256) and go on while the byte became 0.
RECURSIVE IncFrom(_, _)
IncFrom(h, i) ==
    IF i = 0 THEN h
    ELSE LET j == i - 1
             h2 == [h EXCEPT ![j] = (h[j] + 1) % 256]
         IN  IF h2[j] = 0 THEN IncFrom(h2, j) ELSE h2

OpInc(h) == IncFrom(h, Size(h))

InitInc ==
    /\ op = "init"
    /\ \E N \in 1..MaxIncLen : self = Zero(N)
    /\ arg = "none"
    /\ t = "none"
    /\ ret = "none"
    /\ P = 0
    /\ items = {}
    /\ steps = 0
    /\ ptr = 0

Increment ==
    /\ steps < IncCap
    /\ op' = "++"
    /\ self' = OpInc(self)
    /\ ret' = self'
    /\ steps' = steps + 1
    /\ UNCHANGED <<arg, t, P, items, ptr>>

NextInc == Increment

SpecInc == InitInc /\ [][NextInc]_vars

\* C2: after k increments of the all-zero value the value decodes to
\* k mod 2^(8N) (so each increment adds 1 modulo 2^(8N)), and it is all-zero
\* exactly when k is a multiple of 2^(8N): again for the first time after
\* 2^(8N) increments.  operator++ returns the incremented object.
IncrementAddsOne ==
    LET modulus == 2^(8 * Size(self)) IN
    /\ ToArith(self) = steps % modulus
    /\ (self = Zero(Size(self))) <=> (steps % modulus = 0)
    /\ op = "++" => ret = self

\* The 2-byte value wrapped to all-zero at its 2^16-th increment.
IncrementWitness ==
    /\ op = "++"
    /\ Size(self) = 2
    /\ steps = 2^16
    /\ self = Zero(2)

-----------------------------------------------------------------------------
(* Bitwise operators and contains. *)

\* A slip: ^= where |= is meant.
OpXorAssign(a, c) ==
    [i \in DOMAIN a |-> BitOr(a[i], c[i]) - BitAnd(a[i], c[i])]

\* operator|=: m_data[i] |= _c.m_data[i] for every i.
OpOrAssign(a, c) == [i \in DOMAIN a |-> BitOr(a[i], c[i])]

\* operator&: FixedHash(*this) &= _c.
OpAnd(a, c) == [i \in DOMAIN a |-> BitAnd(a[i], c[i])]

\* contains: (*this & _c) == _c.
contains(a, c) == OpEq(OpAnd(a, c), c)

-----------------------------------------------------------------------------
(* Bloom-filter parts. *)

\* StaticLog2<N>::result.
RECURSIVE StaticLog2(_)
StaticLog2(N) == IF N = 1 THEN 0 ELSE 1 + StaticLog2(N \div 2)

c_bloomBits(M) == M * 8
c_mask(M) == c_bloomBits(M) - 1
c_bloomBytes(M) == (StaticLog2(c_bloomBits(M)) + 7) \div 8

\* The instantiations bloomPart<P, M> of FixedHash<N> that compile: its two
\* static_asserts hold.
BloomPartCompiles(N, Pp, M) ==
    /\ BitAnd(M, M - 1) = 0
    /\ Pp * c_bloomBytes(M) <= N

\* The inner loop of bloomPart: index = (index << 8) | *p, ++p, c_bloomBytes
\* times.  index is an unsigned of 32 bits, which at most 4 bytes never
\* overflow.
RECURSIVE ReadIndex(_, _, _, _, _)
ReadIndex(h, M, j, p, index) ==
    IF j = c_bloomBytes(M) THEN [index |-> index, p |-> p]
    ELSE ReadIndex(h, M, j + 1, p + 1, BitOr(index * 256, h[p]))

\* A slip: bit index 0 in byte 0 instead of the last byte.
SetBitFromFront(r, M, index) ==
    [r EXCEPT ![index \div 8] = BitOr(r[index \div 8], 2^(index % 8))]

\* ret[M - 1 - index / 8] |= (1 << (index % 8)).
SetBit(r, M, index) ==
    [r EXCEPT ![M - 1 - index \div 8] = BitOr(r[M - 1 - index \div 8], 2^(index % 8))]

\* The outer loop of bloomPart over the P picks.
RECURSIVE BloomLoop(_, _, _, _, _, _)
BloomLoop(h, Pp, M, i, p, r) ==
    IF i = Pp THEN [hash |-> r, p |-> p]
    ELSE LET rd == ReadIndex(h, M, 0, p, 0)
             index == BitAnd(rd.index, c_mask(M))
         IN  BloomLoop(h, Pp, M, i + 1, rd.p, SetBit(r, M, index))

\* bloomPart<P, M>() of h: the M-byte part, and where the read pointer ended.
bloomPart(h, Pp, M) == BloomLoop(h, Pp, M, 0, 0, Zero(M))

\* shiftBloom<P>(_h): *this |= _h.bloomPart<P, N>().
shiftBloom(f, h, Pp) == OpOrAssign(f, bloomPart(h, Pp, Size(f)).hash)

\* containsBloom<P>(_h): contains(_h.bloomPart<P, N>()).
containsBloom(f, h, Pp) == contains(f, bloomPart(h, Pp, Size(f)).hash)

\* Byte values the bloom inputs are drawn from: index 0, a value the mask
\* cuts, and all bits set.
BloomBytes == {0, 130, 255}

\* The byte lengths M = 1, 2, 4, ... up to 2^maxLog.
PowersOfTwo(maxLog) == {2^e : e \in 0..maxLog}

(* Behaviours of bloomPart: an instantiation that compiles is chosen, a     *)
(* source value is drawn, and bloomPart is applied to it.                   *)

InitBloomPart ==
    /\ op = "init"
    /\ P \in 1..MaxPicks
    /\ \E M \in PowersOfTwo(MaxBloomLog) :
         /\ arg = M
         /\ \E N \in {P * c_bloomBytes(M), P * c_bloomBytes(M) + 1} :
              /\ BloomPartCompiles(N, P, M)
              /\ self \in HashesOver(N, BloomBytes)
    /\ t = "none"
    /\ ret = "none"
    /\ items = {}
    /\ steps = 0
    /\ ptr = 0

BloomPart ==
    /\ op = "init"
    /\ op' = "bloomPart"
    /\ ret' = bloomPart(self, P, arg).hash
    /\ ptr' = bloomPart(self, P, arg).p
    /\ UNCHANGED <<self, arg, t, P, items, steps>>

NextBloomPart == BloomPart

SpecBloomPart == InitBloomPart /\ [][NextBloomPart]_vars

\* ceil(log2(8M) / 8): the least k whose k bytes hold every index below 8M.
BytesPerPick(M) == CHOOSE k \in 1..4 : 256^k >= 8 * M /\ \A l \in 1..(k-1) : 256^l < 8 * M

\* The big-endian integer of the bytes [i * bpp, (i + 1) * bpp) of h, mod 8M.
PickIndex(h, M, i) ==
    LET bpp == BytesPerPick(M)
        be[n \in 0..bpp] == IF n = 0 THEN 0 ELSE be[n - 1] * 256 + h[i * bpp + n - 1]
    IN  be[bpp] % (8 * M)

\* The bits set in the value r: <<k, j>> for bit j (0 = least significant)
\* of byte k.
BitsSet(r) == {<<k, j>> \in (DOMAIN r) \X (0..7) : BitOf(r[k], j) = 1}

\* C9: bloomPart<P, M> returns the M-byte value whose set bits are exactly
\* the bits (index_i mod 8) of the bytes M-1-(index_i div 8), i in 0..P-1;
\* between 1 and P bits are set, and the read pointer ends at
\* P * bytesPerPick, within the N source bytes.
BloomPartSetsPickedBits ==
    op = "bloomPart" =>
        LET M == arg
            picked == {PickIndex(self, M, i) : i \in 0..(P - 1)}
            bitsOn == BitsSet(ret)
        IN
        /\ DOMAIN ret = 0..(M - 1)
        /\ bitsOn = {<<M - 1 - (index \div 8), index % 8>> : index \in picked}
        /\ Cardinality(bitsOn) >= 1
        /\ Cardinality(bitsOn) <= P
        /\ ptr = P * BytesPerPick(M)
        /\ ptr <= Size(self)

\* A 64-byte part was taken with three 2-byte picks, of which two coincide.
BloomPartWitness ==
    /\ op = "bloomPart"
    /\ arg = 64
    /\ P = 3
    /\ BytesPerPick(arg) = 2
    /\ Cardinality(BitsSet(ret)) = 2
    /\ ret[0] # 0

-----------------------------------------------------------------------------
(* Behaviours of a bloom filter: a filter of M bytes starts empty; items   *)
(* are inserted by shiftBloom<P> and looked up by containsBloom<P>.        *)

FilterSizes == PowersOfTwo(MaxFilterLog) \cup {H256Size}

\* Byte values the items of a filter are drawn from: one the mask cuts, and
\* all bits set.
ItemBytes == {130, 255}

\* The items of a filter: the values with just the bytes P picks read.
FilterItems == HashesOver(P * c_bloomBytes(Size(self)), ItemBytes)

InitBloom ==
    /\ op = "init"
    /\ P \in 1..MaxFilterPicks
    /\ \E M \in FilterSizes : self = Zero(M)
    /\ arg = "none"
    /\ t = "none"
    /\ ret = "none"
    /\ items = {}
    /\ steps = 0
    /\ ptr = 0

ShiftBloom ==
    /\ steps < MaxInserts
    /\ \E h \in FilterItems :
         /\ BloomPartCompiles(Size(h), P, Size(self))
         /\ op' = "shiftBloom"
         /\ arg' = h
         /\ self' = shiftBloom(self, h, P)
         /\ ret' = self'
         /\ items' = items \cup {h}
    /\ steps' = steps + 1
    /\ UNCHANGED <<t, P, ptr>>

ContainsBloom ==
    /\ \E h \in FilterItems :
         /\ BloomPartCompiles(Size(h), P, Size(self))
         /\ op' = "containsBloom"
         /\ arg' = h
         /\ ret' = containsBloom(self, h, P)
    /\ UNCHANGED <<self, t, P, items, steps, ptr>>

NextBloom == ShiftBloom \/ ContainsBloom

SpecBloom == InitBloom /\ [][NextBloom]_vars

\* Every inserted item is found, by the lookup that ran and by any that could.
InsertedAreContained ==
    /\ \A h \in items : containsBloom(self, h, P)
    /\ (op = "containsBloom" /\ arg \in items) => ret = TRUE

\* No step clears a bit of the filter.
BitsStaySet ==
    \A k \in DOMAIN self, j \in 0..7 :
        BitOf(self[k], j) = 1 => BitOf(self'[k], j) = 1

\* C1: no false negatives.  Once an item is inserted by shiftBloom<P>,
\* containsBloom<P> of it returns true, also after any further insertions:
\* shiftBloom only sets bits of the filter and never clears one.
BloomNoFalseNegatives == [](InsertedAreContained) /\ [][BitsStaySet]_vars

\* An inserted item was looked up after a different item was inserted on
\* top of it.
BloomWitness ==
    /\ op = "containsBloom"
    /\ Cardinality(items) = 2
    /\ steps = 2
    /\ arg \in items
    /\ Size(self) = H256Size
    /\ P = 2
    /\ ret = TRUE

-----------------------------------------------------------------------------
(* Construction from another fixed value and from a byte vector. *)

ConstructFromHashType == {"AlignLeft", "AlignRight", "FailIfDifferent"}

Min(a, b) == IF a < b THEN a ELSE b

\* for (i = 0; i < c; ++i)
\*     m_data[_t == AlignRight ? N - 1 - i : i] = src[_t == AlignRight ? M - 1 - i : i];
\* dst has N bytes and src has M.
RECURSIVE CopyLoop(_, _, _, _, _)
CopyLoop(dst, src, ty, i, c) ==
    IF i >= c THEN dst
    ELSE LET N == Size(dst)
             M == Size(src)
             to == IF ty = "AlignRight" THEN N - 1 - i ELSE i
             from == IF ty = "AlignRight" THEN M - 1 - i ELSE i
         IN  CopyLoop([dst EXCEPT ![to] = src[from]], src, ty, i + 1, c)

\* A slip: AlignRight reads the source from its start.
FromFixedRightReadsStart(N, h, ty) ==
    [i \in 0..N-1 |->
        IF ty = "AlignRight"
        THEN (IF i >= N - Min(Size(h), N) THEN h[i - (N - Min(Size(h), N))] ELSE 0)
        ELSE (IF i < Min(Size(h), N) THEN h[i] ELSE 0)]

\* A slip: FailIfDifferent copies nothing when the sizes differ, as it does
\* in the construction from a byte vector.
FromFixedStrict(N, h, ty) ==
    IF ty = "FailIfDifferent" /\ Size(h) # N THEN Zero(N)
    ELSE CopyLoop(Zero(N), h, ty, 0, Min(Size(h), N))

\* FixedHash(FixedHash<M> const& _h, ConstructFromHashType _t):
\* m_data.fill(0), then min(M, N) bytes are copied.
FromFixed(N, h, ty) == CopyLoop(Zero(N), h, ty, 0, Min(Size(h), N))

\* right160: memcpy(ret.data(), _t.data() + 12, 20).
right160(h) == [i \in 0..(H160Size - 1) |-> h[12 + i]]

\* A slip: the size check is left out, so FailIfDifferent aligns left.
FromBytesNoCheck(N, b, ty) ==
    IF Size(b) = N THEN [i \in 0..N-1 |-> b[i]]
    ELSE CopyLoop(Zero(N), b, ty, 0, Min(Size(b), N))

\* FixedHash(bytes const& _b, ConstructFromHashType _t) and the same from a
\* bytesConstRef: memcpy of N bytes when the sizes agree; otherwise
\* m_data.fill(0) and, unless _t is FailIfDifferent, the copy loop.
FromBytes(N, b, ty) ==
    IF Size(b) = N THEN [i \in 0..N-1 |-> b[i]]
    ELSE IF ty # "FailIfDifferent"
         THEN CopyLoop(Zero(N), b, ty, 0, Min(Size(b), N))
         ELSE Zero(N)

\* Values with a visible layout, for the sizes too large to enumerate: byte
\* i is a*i + c (mod 256), but for one byte, which is drawn freely.
Patterns(M) ==
    {[i \in 0..M-1 |-> IF i = p THEN b ELSE (a * i + c) % 256] :
        p \in 0..M-1, b \in SampleBytes, a \in {0, 1, 7}, c \in {0, 200}}

FixedSizes == (1..MaxFixedLen) \cup {H160Size, H256Size}

InputHashes(M) == IF M <= MaxFixedLen THEN HashesOver(M, SampleBytes) ELSE Patterns(M)

(* Behaviours of the construction from another fixed value: an M-byte      *)
(* value and a policy are drawn; an N-byte value is constructed from it,   *)
(* or right160 is applied to it.                                           *)

InitFixed ==
    /\ op = "init"
    /\ \E M \in FixedSizes : arg \in InputHashes(M)
    /\ t \in ConstructFromHashType
    /\ self = "none"
    /\ ret = "none"
    /\ P = 0
    /\ items = {}
    /\ steps = 0
    /\ ptr = 0

FromOtherFixed ==
    /\ op = "init"
    /\ op' = "FixedHash(FixedHash<M>)"
    /\ \E N \in FixedSizes : self' = FromFixed(N, arg, t)
    /\ UNCHANGED <<arg, t, ret, P, items, steps, ptr>>

Right160 ==
    /\ op = "init"
    /\ Size(arg) = H256Size
    /\ op' = "right160"
    /\ ret' = right160(arg)
    /\ UNCHANGED <<self, arg, t, P, items, steps, ptr>>

NextFixed == FromOtherFixed \/ Right160

SpecFixed == InitFixed /\ [][NextFixed]_vars

\* C5: under AlignRight the last min(M, N) bytes of the result are the last
\* min(M, N) bytes of the source and the bytes before them are zero; and
\* right160(h) is the 20-byte value made of bytes 12..31 of h, which is the
\* value constructed from h under AlignRight.
AlignRightKeepsTail ==
    /\ (op = "FixedHash(FixedHash<M>)" /\ t = "AlignRight") =>
          LET N == Size(self)
              M == Size(arg)
              c == Min(M, N)
          IN  /\ \A i \in 1..c : self[N - i] = arg[M - i]
              /\ \A i \in 0..(N - c - 1) : self[i] = 0
    /\ op = "right160" =>
          /\ DOMAIN ret = 0..(H160Size - 1)
          /\ \A i \in 0..(H160Size - 1) : ret[i] = arg[12 + i]
          /\ ret = FromFixed(H160Size, arg, "AlignRight")

\* A 20-byte value was constructed under AlignRight from a 32-byte value
\* whose first 12 bytes are not all zero.
AlignRightWitness ==
    /\ op = "FixedHash(FixedHash<M>)"
    /\ t = "AlignRight"
    /\ Size(arg) = H256Size
    /\ Size(self) = H160Size
    /\ arg[3] = 255
    /\ self[0] = arg[12]
    /\ self[0] # 0

\* right160 was applied to a 32-byte value whose first 12 bytes are not all
\* zero.
Right160Witness ==
    /\ op = "right160"
    /\ arg[3] = 255
    /\ ret[19] = arg[31]
    /\ ret[19] # 0

\* C8: in the construction from another fixed value FailIfDifferent does
\* what AlignLeft does: the result is the first min(M, N) bytes of the
\* source followed by zeros; and when M = N every policy copies the source.
FailIfDifferentAlignsLeft ==
    op = "FixedHash(FixedHash<M>)" =>
        LET N == Size(self)
            M == Size(arg)
        IN  /\ t \in {"AlignLeft", "FailIfDifferent"} =>
                 self = [i \in 0..N-1 |-> IF i < Min(M, N) THEN arg[i] ELSE 0]
            /\ M = N => self = arg

\* Under FailIfDifferent a larger value was cut to a smaller one that is not
\* all-zero.
FailIfDifferentWitness ==
    /\ op = "FixedHash(FixedHash<M>)"
    /\ t = "FailIfDifferent"
    /\ Size(arg) = H256Size
    /\ Size(self) = H160Size
    /\ self[0] = 255
    /\ self[19] = 19

(* Behaviours of the construction from a byte vector: a vector of any      *)
(* length up to MaxBytesLen and a policy are drawn and an N-byte value is  *)
(* constructed from it.                                                    *)

InitBytes ==
    /\ op = "init"
    /\ \E L \in 0..MaxBytesLen : arg \in HashesOver(L, SampleBytes)
    /\ t \in ConstructFromHashType
    /\ self = "none"
    /\ ret = "none"
    /\ P = 0
    /\ items = {}
    /\ steps = 0
    /\ ptr = 0

FromByteVector ==
    /\ op = "init"
    /\ op' = "FixedHash(bytes)"
    /\ \E N \in 1..MaxBytesLen : self' = FromBytes(N, arg, t)
    /\ UNCHANGED <<arg, t, ret, P, items, steps, ptr>>

NextBytes == FromByteVector

SpecBytes == InitBytes /\ [][NextBytes]_vars

\* C6: a vector of N bytes is copied byte for byte under every policy; a
\* vector of another length gives the all-zero value under FailIfDifferent,
\* and under AlignLeft (AlignRight) its first (last) min(length, N) bytes at
\* the start (end) of the result, the other bytes of the result zero.
FromBytesByPolicy ==
    op = "FixedHash(bytes)" =>
        LET N == Size(self)
            L == Size(arg)
            c == Min(L, N)
        IN  /\ DOMAIN self = 0..(N - 1)
            /\ L = N => \A i \in 0..(N - 1) : self[i] = arg[i]
            /\ (L # N /\ t = "FailIfDifferent") => \A i \in 0..(N - 1) : self[i] = 0
            /\ (L # N /\ t = "AlignLeft") =>
                 \A i \in 0..(N - 1) : self[i] = IF i < c THEN arg[i] ELSE 0
            /\ (L # N /\ t = "AlignRight") =>
                 \A i \in 0..(N - 1) : self[i] = IF i >= N - c THEN arg[L - N + i] ELSE 0

\* Under FailIfDifferent a vector of another length, with no zero byte, gave
\* the all-zero value.
FromBytesWitness ==
    /\ op = "FixedHash(bytes)"
    /\ t = "FailIfDifferent"
    /\ Size(arg) = 2
    /\ Size(self) = 3
    /\ \A i \in DOMAIN arg : arg[i] = 255
    /\ self = Zero(3)

-----------------------------------------------------------------------------
(* Conversion through a number wider than the model checker's integers.    *)
(* A W-byte unsigned number is written in radix 256, least significant     *)
(* digit first: a function from 0..W-1 to bytes.                           *)

\* The bytes of the C++ type unsigned.
UnsignedBytes == 4

\* x << 8 in a type of Size(x) bytes: the top byte is shifted out.
Shl8(x) == [k \in DOMAIN x |-> IF k = 0 THEN 0 ELSE x[k - 1]]

\* x >> 8.
Shr8(x) == [k \in DOMAIN x |-> IF k = Size(x) - 1 THEN 0 ELSE x[k + 1]]

\* fromBigEndian<T> for T of W bytes: ret = (T)((ret << 8) | byte).
RECURSIVE fromBigEndianWideLoop(_, _, _)
fromBigEndianWideLoop(bytes, i, acc) ==
    IF i = Size(bytes) THEN acc
    ELSE LET sh == Shl8(acc)
         IN  fromBigEndianWideLoop(bytes, i + 1, [sh EXCEPT ![0] = BitOr(sh[0], bytes[i])])

fromBigEndianWide(bytes, W) == fromBigEndianWideLoop(bytes, 0, Zero(W))

\* operator Arith() on the radix-256 numbers.
ToArithWide(h) == fromBigEndianWide(h, Size(h))

\* The conversion of an Arith to unsigned: the low 32 bits.
ToUnsigned(x) == [k \in 0..(UnsignedBytes - 1) |-> IF k < Size(x) THEN x[k] ELSE 0]

\* toBigEndian: for (i = o_out.size(); i != 0; _val >>= 8, i--)
\*     o_out[i - 1] = _val & 0xff.
RECURSIVE toBigEndianLoop(_, _, _)
toBigEndianLoop(val, out, i) ==
    IF i = 0 THEN out
    ELSE toBigEndianLoop(Shr8(val), [out EXCEPT ![i - 1] = BitAnd(val[0], 255)], i - 1)

\* FixedHash(unsigned _u): toBigEndian(_u, m_data).  Every byte of m_data is
\* written, so what it held before does not matter.
FromUnsigned(N, u) == toBigEndianLoop(u, Zero(N), N)

(* Behaviours of the round trip: an N-byte value is drawn, converted to    *)
(* its Arith, and a value is constructed from that number.                 *)

InitNumber ==
    /\ op = "init"
    /\ \E N \in 1..MaxNumLen : self \in HashesOver(N, SampleBytes)
    /\ arg = "none"
    /\ t = "none"
    /\ ret = "none"
    /\ P = 0
    /\ items = {}
    /\ steps = 0
    /\ ptr = 0

FromNumber ==
    /\ op = "init"
    /\ op' = "FixedHash(unsigned)"
    /\ arg' = ToUnsigned(ToArithWide(self))
    /\ ret' = FromUnsigned(Size(self), arg')
    /\ UNCHANGED <<self, t, P, items, steps, ptr>>

NextNumber == FromNumber

SpecNumber == InitNumber /\ [][NextNumber]_vars

\* C4: the value constructed from the number that an N-byte value decodes to
\* is that value.
NumberRoundTrip == op = "FixedHash(unsigned)" => ret = self

-----------------------------------------------------------------------------
(* Equality of 32-byte values. *)

\* The 32-byte values with a visible layout, without the free byte.
Layouts32 == {[i \in 0..(H256Size - 1) |-> (a * i + c) % 256] : a \in {0, 1}, c \in {0, 200}}

InitEq32 ==
    /\ op = "init"
    /\ self \in Layouts32
    /\ \E q \in 0..(H256Size - 1) :
         \E b \in SampleBytes \cup {self[q]} : arg = [self EXCEPT ![q] = b]
    /\ t = "none"
    /\ ret = "none"
    /\ P = 0
    /\ items = {}
    /\ steps = 0
    /\ ptr = 0

NotEqual == Apply("!=", OpNotEq(self, arg))

NextEq32 == Equal \/ NotEqual

SpecEq32 == InitEq32 /\ [][NextEq32]_vars

\* C7: for 32-byte values == holds exactly when the two values agree in
\* every byte, and != is its negation.
FastEqIsByteWise ==
    /\ op = "==" => (ret <=> \A i \in 0..(H256Size - 1) : self[i] = arg[i])
    /\ op = "!=" => (ret <=> ~OpEq(self, arg))

\* Two 32-byte values that differ in their last byte alone compared unequal.
FastEqWitness ==
    /\ op = "=="
    /\ Size(self) = H256Size
    /\ self[31] # arg[31]
    /\ \A i \in 0..30 : self[i] = arg[i]
    /\ ret = FALSE

-----------------------------------------------------------------------------
(* The bit scan. *)

\* The inner loop of firstBitSet: for (;; ++ret, d <<= 1) if (d & 0x80)
\* return ret; d is a byte, so the shift drops its top bit.
RECURSIVE ScanByte(_, _)
ScanByte(d, r) ==
    IF BitAnd(d, 128) # 0 THEN r
    ELSE ScanByte((d * 2) % 256, r + 1)

\* The outer loop of firstBitSet over m_data.
RECURSIVE ScanFrom(_, _, _)
ScanFrom(h, i, r) ==
    IF i = Size(h) THEN r
    ELSE IF h[i] # 0 THEN ScanByte(h[i], r)
    ELSE ScanFrom(h, i + 1, r + 8)

\* A slip: a zero byte does not advance the count.
RECURSIVE ScanFromNoSkip(_, _, _)
ScanFromNoSkip(h, i, r) ==
    IF i = Size(h) THEN r
    ELSE IF h[i] # 0 THEN ScanByte(h[i], r)
    ELSE ScanFromNoSkip(h, i + 1, r)

firstBitSetNoSkip(h) == ScanFromNoSkip(h, 0, 0)

firstBitSet(h) == ScanFrom(h, 0, 0)

\* Byte values the scanned values are drawn from: none, one, two and all
\* bits set.
ScanBytes == {0, 1, 20, 64, 128, 255}

\* The scanned values: every value over ScanBytes, and every byte value in
\* the last place after zeros.
ScanInputs(N) ==
    HashesOver(N, ScanBytes) \cup {[i \in 0..N-1 |-> IF i = N - 1 THEN b ELSE 0] : b \in Byte}

InitScan ==
    /\ op = "init"
    /\ \E N \in 1..MaxScanLen : self \in ScanInputs(N)
    /\ arg = "none"
    /\ t = "none"
    /\ ret = "none"
    /\ P = 0
    /\ items = {}
    /\ steps = 0
    /\ ptr = 0

FirstBitSet == Apply("firstBitSet", firstBitSet(self))

NextScan == FirstBitSet

SpecScan == InitScan /\ [][NextScan]_vars

\* C10: firstBitSet returns 8*i + j for the first nonzero byte i and the
\* position j, counted from the most significant bit, of its highest set
\* bit; N*8 exactly when every byte is zero; N*8 - 1 when only the lowest
\* bit of the last byte is set.
FirstBitSetIsFirst ==
    op = "firstBitSet" =>
        LET N == Size(self)
            nonzero == {i \in 0..(N - 1) : self[i] # 0}
        IN  /\ nonzero = {} <=> ret = N * 8
            /\ nonzero # {} =>
                 LET i == CHOOSE x \in nonzero : \A y \in nonzero : x <= y
                     high == CHOOSE b \in 0..7 : 2^b <= self[i] /\ self[i] < 2^(b + 1)
                 IN  ret = 8 * i + (7 - high)
            /\ self = [Zero(N) EXCEPT ![N - 1] = 1] => ret = N * 8 - 1

\* A value whose first byte is zero and whose first nonzero byte has a bit
\* set below its highest one was scanned.
FirstBitSetWitness ==
    /\ op = "firstBitSet"
    /\ Size(self) = 3
    /\ self[0] = 0
    /\ self[1] = 20
    /\ ret = 11

=============================================================================
